---- MODULE Spec2Model ----
(***************************************************************************)
(* A model of Working/ExtractComment.py: the three-tier de-duplication of  *)
(* source files (remove_duplicates), the regular-expression comment        *)
(* scanner (extract_comment_java), the per-project worker with its         *)
(* skip-if-cached check (process_worker) and the metric aggregation loop   *)
(* of the main program.                                                    *)
(*                                                                         *)
(* Text is a sequence of one-character strings. A path of the file system  *)
(* is a file (its bytes, and whether open() succeeds), a symbolic link or  *)
(* nothing (Absent). An exception is modelled by the condition that raises *)
(* it: OSError by ~IsFile (os.path.getsize) and ~Readable (open).          *)
(***************************************************************************)
EXTENDS Integers, Sequences, FiniteSets, TLC

VARIABLES
    fs,            \* the file system: path -> file, link or Absent
    filelist,      \* the list of paths handed to remove_duplicates
    pc,            \* position of the run
    result,        \* what remove_duplicates returned
    result2,       \* what remove_duplicates returned for its own result
    comment_data,  \* what extract_comment_java returned (path -> size, comments)
    error,         \* the exception that left the last call, or "none"
    metrics,       \* the metric columns of the aggregation loop
    projects,      \* the rows of the project CSV
    artifacts,     \* temp/comment_data/<name>.json: name -> NoFile, Partial or a map
    index,         \* the row the main loop is at
    io,            \* how many walks, file reads and writes this run performed
    restarts,      \* how many times the program was started again
    csv            \* the metric columns of the CSV file, as last written

vars == <<fs, filelist, pc, result, result2, comment_data, error, metrics,
          projects, artifacts, index, io, restarts, csv>>

----------------------------------------------------------------------------
(* Bounds of the model.                                                    *)

\* longest file content, in bytes, of the scanner specification
MaxBytes == 4
\* longest file content made of comment delimiters only
MaxDelims == 9
\* longest file content of the aggregation specification
MaxAggLen == 3
\* longest input list of the de-duplication specification
MaxList == 3
\* longest input list of the specification with files of two sizes
MaxEntries == 4
\* how many times a run may be killed and restarted
MaxRestarts == 2

\* chunk size of chunk_reader and of the first-chunk read in get_hash
chunk_size == 1024

----------------------------------------------------------------------------
(* Sequences.                                                              *)

Least(S) == CHOOSE k \in S : \A j \in S : k <= j

SeqsUpTo(S, n) == UNION {[1..k -> S] : k \in 0..n}

Range(s) == {s[i] : i \in 1..Len(s)}

\* str.startswith
startswith(s, prefix) ==
    /\ Len(prefix) <= Len(s)
    /\ SubSeq(s, 1, Len(prefix)) = prefix

----------------------------------------------------------------------------
(* Decoding a file opened in text mode.                                    *)

\* the bytes above 0x7f of the model: the two bytes of U+00E9 in UTF-8
HighBytes == {"xC3", "xA9"}

\* the bytes a character of decoded text stands for
EncodeChar(c) ==
    CASE c = "U+00E9" -> <<"xC3", "xA9">>
      [] c = "sDCC3"  -> <<"xC3">>
      [] c = "sDCA9"  -> <<"xA9">>
      [] OTHER        -> <<c>>

\* whether the strict decode of open(path, 'r') raises UnicodeDecodeError
RECURSIVE UndecodableFrom(_, _)
UndecodableFrom(b, i) ==
    IF i > Len(b) THEN FALSE
    ELSE IF b[i] = "xC3"
         THEN IF i + 1 <= Len(b) /\ b[i + 1] = "xA9"
              THEN UndecodableFrom(b, i + 2)
              ELSE TRUE
         ELSE IF b[i] = "xA9" THEN TRUE
         ELSE UndecodableFrom(b, i + 1)

Undecodable(b) == UndecodableFrom(b, 1)

\* the strict decode, for bytes it accepts
RECURSIVE DecodeStrictFrom(_, _)
DecodeStrictFrom(b, i) ==
    IF i > Len(b) THEN << >>
    ELSE IF b[i] = "xC3"
         THEN <<"U+00E9">> \o DecodeStrictFrom(b, i + 2)
         ELSE <<b[i]>> \o DecodeStrictFrom(b, i + 1)

\* encoding="ascii", errors="surrogateescape": one character per byte
DecodeSurrogateEscape(b) ==
    [i \in 1..Len(b) |->
        IF b[i] = "xC3" THEN "sDCC3"
        ELSE IF b[i] = "xA9" THEN "sDCA9"
        ELSE b[i]]

\* universal newlines of text mode: "\r\n" and "\r" are read as "\n"
RECURSIVE TranslateNewlinesFrom(_, _)
TranslateNewlinesFrom(s, i) ==
    IF i > Len(s) THEN << >>
    ELSE IF s[i] = "\r"
         THEN IF i + 1 <= Len(s) /\ s[i + 1] = "\n"
              THEN <<"\n">> \o TranslateNewlinesFrom(s, i + 2)
              ELSE <<"\n">> \o TranslateNewlinesFrom(s, i + 1)
         ELSE <<s[i]>> \o TranslateNewlinesFrom(s, i + 1)

TranslateNewlines(s) == TranslateNewlinesFrom(s, 1)

\* src after the try/except around f.read()
ReadText(b) ==
    IF Undecodable(b)
    THEN TranslateNewlines(DecodeSurrogateEscape(b))
    ELSE TranslateNewlines(DecodeStrictFrom(b, 1))

----------------------------------------------------------------------------
(* The two regular expressions, as re.finditer runs them.                  *)

\* the first position k >= pos where s[k] s[k+1] is the pair a b, or 0
FindPair(s, pos, a, b) ==
    LET C == {k \in pos..(Len(s) - 1) : s[k] = a /\ s[k + 1] = b}
    IN  IF C = {} THEN 0 ELSE Least(C)

\* the first position k >= pos where "$" matches under re.MULTILINE
LineEnd(s, pos) ==
    Least({k \in pos..(Len(s) + 1) : k = Len(s) + 1 \/ s[k] = "\n"})

\* a comment record: the matched text and match.span(), 0-based, end-exclusive
Comment(s, first, last) ==
    [content |-> SubSeq(s, first, last), span |-> <<first - 1, last>>]

\* the last position k >= pos where s[k] s[k+1] is the pair a b, or 0
FindLastPair(s, pos, a, b) ==
    LET C == {k \in pos..(Len(s) - 1) : s[k] = a /\ s[k + 1] = b}
    IN  IF C = {} THEN 0 ELSE CHOOSE k \in C : \A j \in C : j <= k

\* regex1 with a greedy body: /\*.*\*/
RECURSIVE regex1_greedy(_, _)
regex1_greedy(s, pos) ==
    LET open == FindPair(s, pos, "/", "*")
    IN  IF open = 0 THEN << >>
        ELSE LET close == FindLastPair(s, open + 2, "*", "/")
             IN  IF close = 0
                 THEN regex1_greedy(s, open + 1)
                 ELSE <<Comment(s, open, close + 1)>>
                          \o regex1_greedy(s, close + 2)

\* finditer of /\*.*?\*/ with re.DOTALL, searching from position pos
RECURSIVE regex1(_, _)
regex1(s, pos) ==
    LET open == FindPair(s, pos, "/", "*")
    IN  IF open = 0 THEN << >>
        ELSE LET close == FindPair(s, open + 2, "*", "/")
             IN  IF close = 0
                 THEN regex1(s, open + 1)
                 ELSE <<Comment(s, open, close + 1)>> \o regex1(s, close + 2)

\* regex2 without re.MULTILINE: "$" matches at the end of the text, and
\* before a newline that ends it
RECURSIVE regex2_no_multiline(_, _)
regex2_no_multiline(s, pos) ==
    LET open == FindPair(s, pos, "/", "/")
    IN  IF open = 0 THEN << >>
        ELSE LET end == LineEnd(s, open + 2)
             IN  IF end >= Len(s)
                 THEN <<Comment(s, open, end - 1)>>
                 ELSE regex2_no_multiline(s, end)

\* finditer of //.*?$ with re.MULTILINE, searching from position pos
RECURSIVE regex2(_, _)
regex2(s, pos) ==
    LET open == FindPair(s, pos, "/", "/")
    IN  IF open = 0 THEN << >>
        ELSE LET end == LineEnd(s, open + 2)
             IN  <<Comment(s, open, end - 1)>> \o regex2(s, end)

\* result[path]['comments'] after both loops
ScanComments(src) == regex1(src, 1) \o regex2(src, 1)

----------------------------------------------------------------------------
(* The file system.                                                        *)

Absent == [kind |-> "absent"]
File(content, mode) == [kind |-> "file", content |-> content, mode |-> mode]
Link(target) == [kind |-> "link", target |-> target]

\* A content is a sequence of bytes. A token "B<n><x>" stands for one fixed
\* run of n ASCII bytes holding no comment delimiter and no line terminator.
ByteCount(b) ==
    CASE b \in {"B1024a", "B1024b"} -> 1024
      [] b \in {"B976a", "B976b"}   -> 976
      [] OTHER                      -> 1

RECURSIVE SumBytes(_)
SumBytes(b) == IF b = << >> THEN 0 ELSE ByteCount(Head(b)) + SumBytes(Tail(b))

\* os.path.realpath: a symbolic link is replaced by its target
realpath(path) == IF fs[path].kind = "link" THEN fs[path].target ELSE path

\* whether os.path.getsize(path) succeeds (it raises OSError otherwise)
IsFile(path) == fs[realpath(path)].kind = "file"

\* os.path.getsize: the size from the metadata
getsize(path) == SumBytes(fs[realpath(path)].content)

\* whether open(path) succeeds (it raises OSError otherwise)
Readable(path) ==
    /\ fs[realpath(path)].kind = "file"
    /\ fs[realpath(path)].mode = "r"

\* fobj.read(n) at the start of content: the bytes read
read(content, n) ==
    LET K == {k \in 0..Len(content) : SumBytes(SubSeq(content, 1, k)) <= n}
    IN  SubSeq(content, 1, CHOOSE k \in K : \A j \in K : j <= k)

\* what chunk_reader yields, concatenated
RECURSIVE chunk_reader(_)
chunk_reader(content) ==
    IF content = << >> THEN << >>
    ELSE LET chunk == read(content, chunk_size)
         IN  chunk \o chunk_reader(SubSeq(content, Len(chunk) + 1, Len(content)))

\* hashlib.sha1: distinct byte strings have distinct digests
sha1(b) == [sha1 |-> b]

\* the digest get_hash returns when open(filename) succeeds
get_hash(filename, first_chunk_only) ==
    IF first_chunk_only
    THEN sha1(read(fs[realpath(filename)].content, chunk_size))
    ELSE sha1(chunk_reader(fs[realpath(filename)].content))

----------------------------------------------------------------------------
(* remove_duplicates. A dict is the sequence of its items in insertion     *)
(* order, which is the order Python iterates it in.                        *)

HasKey(d, key) == \E i \in 1..Len(d) : d[i].key = key

\* d[key].append(val), creating the list when d.get(key) is empty
Put(d, key, val) ==
    IF HasKey(d, key)
    THEN [i \in 1..Len(d) |->
             IF d[i].key = key
             THEN [key |-> key, files |-> Append(d[i].files, val)]
             ELSE d[i]]
    ELSE Append(d, [key |-> key, files |-> <<val>>])

\* hashes_by_size after the first n paths of the list
RECURSIVE SizeLoop(_, _)
SizeLoop(fl, n) ==
    IF n = 0 THEN << >>
    ELSE LET d == SizeLoop(fl, n - 1)
             path == realpath(fl[n])
         IN  IF ~IsFile(path)
             THEN d
             ELSE Put(d, getsize(path), path)

hashes_by_size(fl) == SizeLoop(fl, Len(fl))

\* hashes_on_1k after the first n files of one size group
RECURSIVE SmallHashLoop(_, _, _)
SmallHashLoop(files, n, d) ==
    IF n = 0 THEN d
    ELSE LET d0 == SmallHashLoop(files, n - 1, d)
             small_hash == get_hash(files[n], TRUE)
         IN  IF ~Readable(files[n])
             THEN d0
             ELSE Put(d0, small_hash, files[n])

\* Tier2 that takes the files of one size for duplicates and keeps the first
RECURSIVE Tier2_size_only(_, _)
Tier2_size_only(by_size, n) ==
    IF n = 0 THEN [result |-> << >>, hashes_on_1k |-> << >>]
    ELSE LET st == Tier2_size_only(by_size, n - 1)
         IN  [st EXCEPT !.result = Append(@, by_size[n].files[1])]

\* result and hashes_on_1k after the first n size groups
RECURSIVE Tier2(_, _)
Tier2(by_size, n) ==
    IF n = 0 THEN [result |-> << >>, hashes_on_1k |-> << >>]
    ELSE LET st == Tier2(by_size, n - 1)
             files == by_size[n].files
         IN  IF Len(files) < 2
             THEN [st EXCEPT !.result = @ \o files]
             ELSE [st EXCEPT !.hashes_on_1k =
                                SmallHashLoop(files, Len(files), @)]

\* FullHashLoop with the test of line 123 inverted: the first file of a
\* digest is recorded, the later ones are appended
RECURSIVE FullHashLoop_inverted(_, _, _)
FullHashLoop_inverted(files, n, st) ==
    IF n = 0 THEN st
    ELSE LET st0 == FullHashLoop_inverted(files, n - 1, st)
             full_hash == get_hash(files[n], FALSE)
         IN  IF ~Readable(files[n])
             THEN st0
             ELSE IF full_hash \in st0.hashes_full
                  THEN [st0 EXCEPT !.result = Append(@, files[n])]
                  ELSE [st0 EXCEPT !.hashes_full = @ \cup {full_hash}]

\* FullHashLoop in which the last file of a digest wins
RECURSIVE FullHashLoop_last_wins(_, _, _)
FullHashLoop_last_wins(files, n, st) ==
    IF n = 0 THEN st
    ELSE LET full_hash == get_hash(files[n], FALSE)
             seen == {get_hash(files[k], FALSE) :
                         k \in {j \in (n + 1)..Len(files) : Readable(files[j])}}
             st0 == FullHashLoop_last_wins(files, n - 1, st)
         IN  IF ~Readable(files[n]) \/ full_hash \in seen
                \/ full_hash \in st0.hashes_full
             THEN st0
             ELSE [result |-> Append(st0.result, files[n]),
                   hashes_full |-> st0.hashes_full \cup {full_hash}]

\* result and hashes_full after the first n files of one first-chunk group
RECURSIVE FullHashLoop(_, _, _)
FullHashLoop(files, n, st) ==
    IF n = 0 THEN st
    ELSE LET st0 == FullHashLoop(files, n - 1, st)
             full_hash == get_hash(files[n], FALSE)
         IN  IF ~Readable(files[n])
             THEN st0
             ELSE IF full_hash \in st0.hashes_full
                  THEN st0
                  ELSE [result |-> Append(st0.result, files[n]),
                        hashes_full |-> st0.hashes_full \cup {full_hash}]

\* result and hashes_full after the first n first-chunk groups
RECURSIVE Tier3(_, _, _)
Tier3(on_1k, n, st) ==
    IF n = 0 THEN st
    ELSE LET st0 == Tier3(on_1k, n - 1, st)
             files == on_1k[n].files
         IN  IF Len(files) < 2
             THEN [st0 EXCEPT !.result = @ \o files]
             ELSE FullHashLoop(files, Len(files), st0)

remove_duplicates(fl) ==
    LET by_size == hashes_by_size(fl)
        t2 == Tier2(by_size, Len(by_size))
    IN  Tier3(t2.hashes_on_1k, Len(t2.hashes_on_1k),
              [result |-> t2.result, hashes_full |-> {}]).result

----------------------------------------------------------------------------
(* extract_comment_java.                                                   *)

\* whether a call raises: os.path.getsize and open are outside any handler
\* of OSError (only UnicodeDecodeError is caught)
ExtractRaises(file_list) ==
    \E i \in 1..Len(file_list) :
        ~IsFile(file_list[i]) \/ ~Readable(file_list[i])

\* the dictionary returned when nothing raises
extract_comment_java(file_list) ==
    [path \in Range(file_list) |->
        [size     |-> getsize(path),
         comments |-> ScanComments(ReadText(fs[realpath(path)].content))]]

----------------------------------------------------------------------------
(* The metric aggregation loop of the main program.                        *)

RECURSIVE SumOver(_, _)
SumOver(f, S) ==
    IF S = {} THEN 0
    ELSE LET x == CHOOSE y \in S : TRUE IN f[x] + SumOver(f, S \ {x})

\* the prefix that makes a comment a documentation comment
DocPrefix == <<"/", "*", "*">>

\* CountComments with the documentation test startswith('/*')
RECURSIVE CountComments_two_chars(_, _, _)
CountComments_two_chars(cs, n, acc) ==
    IF n = 0 THEN acc
    ELSE LET a == CountComments_two_chars(cs, n - 1, acc)
             isdoc == startswith(cs[n].content, <<"/", "*">>)
         IN  [comment_size |-> a.comment_size + Len(cs[n].content),
              doc_comment  |-> a.doc_comment + (IF isdoc THEN 1 ELSE 0),
              impl_comment |-> a.impl_comment + (IF isdoc THEN 0 ELSE 1)]

\* comment_size, doc_comment and impl_comment after the first n comments of
\* one file, starting from acc
RECURSIVE CountComments(_, _, _)
CountComments(cs, n, acc) ==
    IF n = 0 THEN acc
    ELSE LET a == CountComments(cs, n - 1, acc)
             isdoc == startswith(cs[n].content, DocPrefix)
         IN  [comment_size |-> a.comment_size + Len(cs[n].content),
              doc_comment  |-> a.doc_comment + (IF isdoc THEN 1 ELSE 0),
              impl_comment |-> a.impl_comment + (IF isdoc THEN 0 ELSE 1)]

\* the same counters after the files of the set keys
RECURSIVE CountFiles(_, _, _)
CountFiles(comments, keys, acc) ==
    IF keys = {} THEN acc
    ELSE LET key == CHOOSE k \in keys : TRUE
             val == comments[key]
         IN  CountFiles(comments, keys \ {key},
                        CountComments(val.comments, Len(val.comments), acc))

\* the five metric columns of one project, from its loaded artifact
Aggregate(comments) ==
    LET c == CountFiles(comments, DOMAIN comments,
                        [comment_size |-> 0, doc_comment |-> 0,
                         impl_comment |-> 0])
    IN  [src_files     |-> Cardinality(DOMAIN comments),
         src_file_size |-> SumOver([k \in DOMAIN comments |-> comments[k].size],
                                   DOMAIN comments),
         comment_size  |-> c.comment_size,
         doc_comment   |-> c.doc_comment,
         impl_comment  |-> c.impl_comment]

\* json.dumps of the dictionary, and json.load of the text written
json_dumps(data) == [json |-> data]
json_load(text) == text.json

----------------------------------------------------------------------------
(* Inputs.                                                                 *)

\* the bytes of the scanner specification
Bytes == {"/", "*", "\n", "\r", "a"} \cup HighBytes

\* the characters that delimit comments
Delims == {"/", "*", "\n"}

\* the texts of the scenarios
TextHelloWorld == <<"a", "/", "*", "h", "e", "l", "l", "o", "*", "/", "b", "/", "/", "w", "o", "r", "l", "d", "\n", "c">>
TextDoc == <<"/", "*", "*", "d", "o", "c", "*", "/", "x">>
TextNoClose == <<"/", "*", "n", "o", "-", "c", "l", "o", "s", "e">>
TextCRLF == <<"a", "\r", "\n", "/", "/", "b", "\r", "\n", "/", "*", "c", "*", "/">>
TextAccent == <<"xC3", "xA9", "/", "*", "xC3", "xA9", "*", "/", "/", "/", "a">>
TextMixed == <<"/", "*", "a", "/", "/", "b", "\n", "c", "*", "/", "d", "/", "/", "e", "/", "*", "f", "\n", "/", "*", "g", "*", "/", "h", "/", "*", "i">>
Scenarios ==
    {TextHelloWorld, TextDoc, TextNoClose, TextCRLF, TextAccent, TextMixed}

\* the contents of the de-duplication specification: the empty file, two
\* files of 1024 bytes, and two of 2000 bytes that begin like the first
Contents ==
    {<< >>, <<"B1024a">>, <<"B1024b">>,
     <<"B1024a", "B976a">>, <<"B1024a", "B976b">>}

Modes == {"r", "denied"}

----------------------------------------------------------------------------
(* Steps shared by the specifications.                                     *)

NoIO == [walks |-> 0, reads |-> 0, writes |-> 0]

\* extract_comment_java(result), called with what remove_duplicates returned
ExtractCommentJava ==
    /\ pc = "extract"
    /\ IF ExtractRaises(result)
       THEN /\ error' = "OSError"
            /\ comment_data' = << >>
            /\ pc' = "raised"
       ELSE /\ error' = error
            /\ comment_data' = extract_comment_java(result)
            /\ pc' = "extracted"
    /\ UNCHANGED <<fs, filelist, result, result2, metrics, projects,
                   artifacts, index, io, restarts, csv>>

\* one pass of the metric loop over the dictionary, written and loaded back
AggregateMetrics ==
    /\ pc = "extracted"
    /\ metrics' = Aggregate(json_load(json_dumps(comment_data)))
    /\ pc' = "aggregated"
    /\ UNCHANGED <<fs, filelist, result, result2, comment_data, error,
                   projects, artifacts, index, io, restarts, csv>>

----------------------------------------------------------------------------
(* The scanner on one file.                                                *)

ScanInputs ==
    SeqsUpTo(Bytes, MaxBytes) \cup SeqsUpTo(Delims, MaxDelims) \cup Scenarios

InitScan ==
    /\ \E b \in ScanInputs : fs = [p \in {"A.java"} |-> File(b, "r")]
    /\ filelist = <<"A.java">>
    /\ result = <<"A.java">>
    /\ pc = "extract"
    /\ result2 = << >>
    /\ comment_data = << >>
    /\ error = "none"
    /\ metrics = << >>
    /\ projects = << >>
    /\ artifacts = << >>
    /\ index = 0
    /\ io = NoIO
    /\ restarts = 0
    /\ csv = << >>

NextScan == ExtractCommentJava

SpecScan == InitScan /\ [][NextScan]_vars

----------------------------------------------------------------------------
(* The scanner and the metric loop on one or two files.                    *)

AggInputs == SeqsUpTo(Delims, MaxAggLen) \cup Scenarios

InitAggregate ==
    /\ \E a \in AggInputs, b \in AggInputs :
           fs = [p \in {"A.java", "B.java"} |->
                    IF p = "A.java" THEN File(a, "r") ELSE File(b, "r")]
    /\ filelist \in {<<"A.java">>, <<"A.java", "B.java">>}
    /\ result = filelist
    /\ pc = "extract"
    /\ result2 = << >>
    /\ comment_data = << >>
    /\ error = "none"
    /\ metrics = << >>
    /\ projects = << >>
    /\ artifacts = << >>
    /\ index = 0
    /\ io = NoIO
    /\ restarts = 0
    /\ csv = << >>

NextAggregate ==
    \/ ExtractCommentJava
    \/ AggregateMetrics

SpecAggregate == InitAggregate /\ [][NextAggregate]_vars

----------------------------------------------------------------------------
(* Properties of the scanner.                                              *)

\* the decoded text of a scanned file, and its records
Src(p) == ReadText(fs[p].content)
Recs(p) == comment_data[p].comments

PairAt(s, k, a, b) == k >= 1 /\ k + 1 <= Len(s) /\ s[k] = a /\ s[k + 1] = b

IsBlock(r) == startswith(r.content, <<"/", "*">>)
IsLine(r) == startswith(r.content, <<"/", "/">>)
Blocks(p) == SelectSeq(Recs(p), IsBlock)
Lines(p) == SelectSeq(Recs(p), IsLine)

\* an opening at position k of s with no closing after it
Unterminated(s, k) ==
    /\ PairAt(s, k, "/", "*")
    /\ \A j \in (k + 2)..Len(s) : ~PairAt(s, j, "*", "/")

\* C5: every block record begins with the opening delimiter and ends at the
\* nearest closing delimiter after it, block records are in increasing
\* offset order and do not overlap, an opening with no closing after it
\* starts no record, and the text /*no-close has no record at all.
C5_BlockPass ==
    pc = "extracted" =>
        \A p \in DOMAIN comment_data :
            LET s == Src(p)
                blocks == Blocks(p)
            IN  /\ \A i \in 1..Len(blocks) :
                       LET b == blocks[i].span[1]
                           e == blocks[i].span[2]
                       IN  /\ 0 <= b /\ b + 4 <= e /\ e <= Len(s)
                           /\ blocks[i].content = SubSeq(s, b + 1, e)
                           /\ PairAt(s, b + 1, "/", "*")
                           /\ PairAt(s, e - 1, "*", "/")
                           /\ \A k \in (b + 3)..(e - 2) : ~PairAt(s, k, "*", "/")
                /\ \A i \in 1..(Len(blocks) - 1) :
                       blocks[i].span[2] <= blocks[i + 1].span[1]
                /\ \A k \in 1..Len(s) :
                       Unterminated(s, k) =>
                           \A i \in 1..Len(blocks) : blocks[i].span[1] # k - 1
                /\ \A k \in 1..Len(s) :
                       (PairAt(s, k, "/", "*") /\ ~Unterminated(s, k)) =>
                           \E i \in 1..Len(blocks) :
                               /\ blocks[i].span[1] <= k - 1
                               /\ k - 1 < blocks[i].span[2]
                /\ (fs[p].content = TextNoClose => Recs(p) = << >>)

\* two block records, one of them over several lines and holding "//", and
\* an unterminated opening after them
C5_Witness ==
    /\ pc = "extracted"
    /\ \E p \in DOMAIN comment_data :
           /\ Len(Blocks(p)) >= 2
           /\ \E i \in 1..Len(Blocks(p)) :
                  /\ "\n" \in Range(Blocks(p)[i].content)
                  /\ \E k \in 1..Len(Blocks(p)[i].content) :
                         PairAt(Blocks(p)[i].content, k, "/", "/")
           /\ \E k \in 1..Len(Src(p)) : Unterminated(Src(p), k)

\* C6: every line record begins at the first "//" of its line and ends
\* before the next newline or at the end of the text, every "//" lies in a
\* line record whether or not it is inside a block comment, and the output
\* is the block records followed by the line records; the text
\* a/*hello*/b//world\nc gives /*hello*/ at [1,10) and //world at [11,18).
C6_LinePass ==
    pc = "extracted" =>
        \A p \in DOMAIN comment_data :
            LET s == Src(p)
                lines == Lines(p)
            IN  /\ Recs(p) = Blocks(p) \o lines
                /\ \A i \in 1..Len(lines) :
                       LET b == lines[i].span[1]
                           e == lines[i].span[2]
                       IN  /\ 0 <= b /\ b + 2 <= e /\ e <= Len(s)
                           /\ lines[i].content = SubSeq(s, b + 1, e)
                           /\ PairAt(s, b + 1, "/", "/")
                           /\ "\n" \notin Range(lines[i].content)
                           /\ e = Len(s) \/ s[e + 1] = "\n"
                           /\ \A k \in 1..b :
                                  PairAt(s, k, "/", "/") =>
                                      \E j \in k..b : s[j] = "\n"
                /\ \A i \in 1..(Len(lines) - 1) :
                       \E j \in (lines[i].span[2] + 1)..lines[i + 1].span[1] :
                           s[j] = "\n"
                /\ \A k \in 1..Len(s) :
                       PairAt(s, k, "/", "/") =>
                           \E i \in 1..Len(lines) :
                               /\ lines[i].span[1] <= k - 1
                               /\ k + 1 <= lines[i].span[2]
                /\ (fs[p].content = TextHelloWorld =>
                       Recs(p) =
                           <<[content |-> <<"/", "*", "h", "e", "l", "l", "o", "*", "/">>,
                              span |-> <<1, 10>>],
                             [content |-> <<"/", "/", "w", "o", "r", "l", "d">>,
                              span |-> <<11, 18>>]>>)

\* two line records, one of them inside a block record
C6_Witness ==
    /\ pc = "extracted"
    /\ \E p \in DOMAIN comment_data :
           /\ Len(Lines(p)) >= 2
           /\ \E i \in 1..Len(Lines(p)), j \in 1..Len(Blocks(p)) :
                  /\ Blocks(p)[j].span[1] < Lines(p)[i].span[1]
                  /\ Lines(p)[i].span[2] < Blocks(p)[j].span[2]

\* the bytes a decoded text stands for
RECURSIVE EncodeText(_)
EncodeText(t) ==
    IF t = << >> THEN << >> ELSE EncodeChar(Head(t)) \o EncodeText(Tail(t))

\* C7 as stated: the bytes of the file between a record's offsets are the
\* bytes of the comment, and end - start is the comment's size in bytes.
C7_ByteOffsets ==
    pc = "extracted" =>
        \A p \in DOMAIN comment_data :
            \A i \in 1..Len(Recs(p)) :
                LET b == Recs(p)[i].span[1]
                    e == Recs(p)[i].span[2]
                    bytes == EncodeText(Recs(p)[i].content)
                IN  /\ e <= Len(fs[p].content)
                    /\ SubSeq(fs[p].content, b + 1, e) = bytes
                    /\ e - b = Len(bytes)

\* a file every byte of which is read as one character, itself
ByteExact(bytes) ==
    /\ "\r" \notin Range(bytes)
    /\ Undecodable(bytes) \/ Range(bytes) \cap HighBytes = {}

\* What the code does where C7 fails: the offsets of a record are character
\* offsets into the decoded text with its newlines translated; the
\* characters between them are the comment and end - start is its length
\* in characters. They are byte offsets when the file holds no carriage
\* return and either only ASCII bytes or bytes the strict decode refuses.
CharOffsets ==
    pc = "extracted" =>
        \A p \in DOMAIN comment_data :
            \A i \in 1..Len(Recs(p)) :
                LET b == Recs(p)[i].span[1]
                    e == Recs(p)[i].span[2]
                    c == Recs(p)[i].content
                IN  /\ 0 <= b /\ e <= Len(Src(p))
                    /\ SubSeq(Src(p), b + 1, e) = c
                    /\ e - b = Len(c)
                    /\ ByteExact(fs[p].content) =>
                           /\ SubSeq(fs[p].content, b + 1, e) = EncodeText(c)
                           /\ e - b = Len(EncodeText(c))

\* a file with bytes the strict decode refuses, scanned by the fallback
\* decode, with a comment that holds such a byte
FallbackScanned ==
    /\ pc = "extracted"
    /\ \E p \in DOMAIN comment_data :
           /\ Undecodable(fs[p].content)
           /\ \E i \in 1..Len(Recs(p)) :
                  /\ Recs(p)[i].span[1] > 0
                  /\ Range(Recs(p)[i].content) \cap {"sDCC3", "sDCA9"} # {}

----------------------------------------------------------------------------
(* Properties of the metric loop.                                          *)

\* the records of a dictionary, each named by its file and its position
AllRecs(m) ==
    UNION {{<<p, i>> : i \in 1..Len(m[p].comments)} : p \in DOMAIN m}

RecOf(m, x) == m[x[1]].comments[x[2]]

DocRecs(m) == {x \in AllRecs(m) : startswith(RecOf(m, x).content, DocPrefix)}

\* C9: the file count is the number of keys, the source size the sum of the
\* sizes, the comment size the sum of the content lengths, a record is a
\* documentation comment exactly when it starts with /** and an
\* implementation comment otherwise, so every line record is one, and the
\* two counts add up to the number of records; a/*hello*/b//world\nc gives
\* 2 and 0, /**doc*/x gives 0 and 1.
C9_Aggregation ==
    pc = "aggregated" =>
        LET m == comment_data
            all == AllRecs(m)
            doc == DocRecs(m)
            lines == {x \in all : IsLine(RecOf(m, x))}
        IN  /\ metrics.src_files = Cardinality(DOMAIN m)
            /\ metrics.src_file_size =
                   SumOver([p \in DOMAIN m |-> getsize(p)], DOMAIN m)
            /\ metrics.comment_size =
                   SumOver([x \in all |-> Len(RecOf(m, x).content)], all)
            /\ metrics.doc_comment = Cardinality(doc)
            /\ metrics.impl_comment = Cardinality(all \ doc)
            /\ metrics.doc_comment + metrics.impl_comment = Cardinality(all)
            /\ metrics.impl_comment >= Cardinality(lines)
            /\ lines \cap doc = {}
            /\ (filelist = <<"A.java">> /\ fs["A.java"].content = TextHelloWorld)
                   => metrics.impl_comment = 2 /\ metrics.doc_comment = 0
            /\ (filelist = <<"A.java">> /\ fs["A.java"].content = TextDoc)
                   => metrics.impl_comment = 0 /\ metrics.doc_comment = 1

\* two files aggregated, with a documentation comment, a block comment that
\* is none and a line comment among their records
C9_Witness ==
    /\ pc = "aggregated"
    /\ Cardinality(DOMAIN comment_data) = 2
    /\ metrics.doc_comment >= 1
    /\ \E x \in AllRecs(comment_data) \ DocRecs(comment_data) :
           IsBlock(RecOf(comment_data, x))
    /\ \E x \in AllRecs(comment_data) : IsLine(RecOf(comment_data, x))

----------------------------------------------------------------------------
(* remove_duplicates on a list of paths, then on its own result, and       *)
(* extract_comment_java on what it returned.                               *)

\* three files and a symbolic link to the first
Files == {"f1", "f2", "f3"}
Paths == Files \cup {"l1"}

FileStates == {Absent} \cup {File(c, m) : c \in Contents, m \in Modes}

InitDedupe ==
    /\ \E st \in [Files -> FileStates] :
           fs = [p \in Paths |-> IF p = "l1" THEN Link("f1") ELSE st[p]]
    /\ filelist \in SeqsUpTo(Paths, MaxList)
    /\ pc = "start"
    /\ result = << >>
    /\ result2 = << >>
    /\ comment_data = << >>
    /\ error = "none"
    /\ metrics = << >>
    /\ projects = << >>
    /\ artifacts = << >>
    /\ index = 0
    /\ io = NoIO
    /\ restarts = 0
    /\ csv = << >>

\* file_list = remove_duplicates(file_list)
RemoveDuplicates ==
    /\ pc = "start"
    /\ result' = remove_duplicates(filelist)
    /\ pc' = "extract"
    /\ UNCHANGED <<fs, filelist, result2, comment_data, error, metrics,
                   projects, artifacts, index, io, restarts, csv>>

\* remove_duplicates applied to its own result, the file system unchanged
RemoveDuplicatesAgain ==
    /\ pc = "extract"
    /\ result2' = remove_duplicates(result)
    /\ pc' = "twice"
    /\ UNCHANGED <<fs, filelist, result, comment_data, error, metrics,
                   projects, artifacts, index, io, restarts, csv>>

NextDedupe ==
    \/ RemoveDuplicates
    \/ RemoveDuplicatesAgain
    \/ ExtractCommentJava

SpecDedupe == InitDedupe /\ [][NextDedupe]_vars

\* Four readable files, f1 and f2 of 1024 bytes and f3 and f4 of 2000
\* bytes, so that two size groups hold two files each and hashes_on_1k,
\* whose key is the digest of the first chunk alone, can hold files of both
\* sizes in one group.
SizedFiles == {"f1", "f2", "f3", "f4"}

SmallContents == {<<"B1024a">>, <<"B1024b">>}

LargeContents ==
    {<<"B1024a", "B976a">>, <<"B1024b", "B976a">>, <<"B1024a", "B976b">>}

InitSizes ==
    /\ \E c1 \in SmallContents, c2 \in SmallContents,
          c3 \in LargeContents, c4 \in LargeContents :
           fs = [f \in SizedFiles |->
                    CASE f = "f1" -> File(c1, "r")
                      [] f = "f2" -> File(c2, "r")
                      [] f = "f3" -> File(c3, "r")
                      [] f = "f4" -> File(c4, "r")]
    /\ filelist \in SeqsUpTo(SizedFiles, MaxEntries)
    /\ pc = "start"
    /\ result = << >>
    /\ result2 = << >>
    /\ comment_data = << >>
    /\ error = "none"
    /\ metrics = << >>
    /\ projects = << >>
    /\ artifacts = << >>
    /\ index = 0
    /\ io = NoIO
    /\ restarts = 0
    /\ csv = << >>

\* remove_duplicates on the inputs of SpecDedupe and on those of InitSizes
SpecDedupeSizes == (InitDedupe \/ InitSizes) /\ [][NextDedupe]_vars

----------------------------------------------------------------------------
(* Properties of remove_duplicates.                                        *)

\* the files the input names, links resolved
InputFiles == {realpath(filelist[i]) : i \in 1..Len(filelist)}

\* those of them that can be read
Accessible == {f \in InputFiles : IsFile(f) /\ Readable(f)}

\* where a file first appears in the input
FirstIndex(f) == Least({i \in 1..Len(filelist) : realpath(filelist[i]) = f})

ByteIdentical(a, b) == fs[a].content = fs[b].content

FirstChunk(f) == read(fs[f].content, chunk_size)

\* a byte-identical readable file that appears before f in the input
EarlierCopies(f) ==
    {g \in Accessible \ {f} :
        ByteIdentical(f, g) /\ FirstIndex(g) < FirstIndex(f)}

\* C1: of the readable files of the input that are byte-identical, the one
\* that appears first in the input is returned and no other is: of two such
\* files exactly one is returned, the earlier one; and no two paths of the
\* result have the same content.
C1_FirstSeenWins ==
    pc # "start" =>
        /\ \A f \in Accessible :
               f \in Range(result) <=> EarlierCopies(f) = {}
        /\ \A a \in Accessible, b \in Accessible :
               (a # b /\ ByteIdentical(a, b) /\ FirstIndex(a) < FirstIndex(b)
                    /\ EarlierCopies(a) = {})
                   => a \in Range(result) /\ b \notin Range(result)
        /\ \A i \in 1..Len(result), j \in 1..Len(result) :
               i # j => /\ result[i] # result[j]
                        /\ ~ByteIdentical(result[i], result[j])

\* two byte-identical readable files of 2000 bytes, f1 named first in the
\* input by the link to it: f1 is returned, f2 is not
C1_Witness ==
    /\ pc = "extract"
    /\ filelist = <<"l1", "f2", "f1">>
    /\ Accessible = {"f1", "f2"}
    /\ ByteIdentical("f1", "f2")
    /\ getsize("f1") > chunk_size
    /\ result = <<"f1">>

\* C2: with every input file accessible, no file is removed as a false
\* duplicate: a file is returned unless a byte-identical file before it in
\* the input is returned. So a file whose size no other file has is
\* returned, and two files of one size whose first chunks differ are both
\* returned, whatever the sizes and first chunks of the other files, those
\* of another size that are in their group of hashes_on_1k included.
C2_NoFalseDuplicate ==
    (pc # "start" /\ Accessible = InputFiles
        /\ \A i \in 1..Len(filelist) : IsFile(filelist[i])) =>
        /\ \A f \in InputFiles :
               (\A g \in InputFiles \ {f} : getsize(g) # getsize(f))
                   => f \in Range(result)
        /\ \A a \in InputFiles, b \in InputFiles :
               (getsize(a) = getsize(b) /\ FirstChunk(a) # FirstChunk(b)
                    /\ EarlierCopies(a) = {} /\ EarlierCopies(b) = {})
                   => a \in Range(result) /\ b \in Range(result)
        /\ \A f \in InputFiles :
               \/ f \in Range(result)
               \/ \E g \in EarlierCopies(f) : g \in Range(result)

\* the groups of hashes_on_1k for the input
SmallHashGroups ==
    LET by_size == hashes_by_size(filelist)
    IN  Tier2(by_size, Len(by_size)).hashes_on_1k

\* two files of 1024 bytes with different first chunks and two files of
\* 2000 bytes with those same two first chunks, the larger files first in
\* the input: both size groups are hashed, each group of hashes_on_1k holds
\* a file of 1024 bytes and a file of 2000 bytes under one first-chunk
\* digest, and all four files are returned
C2_Witness ==
    /\ pc = "extract"
    /\ filelist = <<"f3", "f1", "f4", "f2">>
    /\ Accessible = {"f1", "f2", "f3", "f4"}
    /\ getsize("f1") = chunk_size /\ getsize("f2") = chunk_size
    /\ getsize("f3") = getsize("f4") /\ getsize("f3") > chunk_size
    /\ FirstChunk("f1") # FirstChunk("f2")
    /\ FirstChunk("f3") = FirstChunk("f1")
    /\ FirstChunk("f4") = FirstChunk("f2")
    /\ Len(SmallHashGroups) = 2
    /\ \E n \in DOMAIN SmallHashGroups :
           Range(SmallHashGroups[n].files) = {"f1", "f3"}
    /\ \E n \in DOMAIN SmallHashGroups :
           Range(SmallHashGroups[n].files) = {"f2", "f4"}
    /\ Range(result) = {"f1", "f2", "f3", "f4"}

\* C3 as stated: no error leaves remove_duplicates or extract_comment_java,
\* and the caller gets the files that could be processed.
C3_ErrorsAbsorbed ==
    /\ pc # "raised"
    /\ error = "none"
    /\ pc = "extracted" =>
           DOMAIN comment_data = {f \in Range(result) : Readable(f)}

\* C8: remove_duplicates applied to its own result returns the same set of
\* paths.
C8_Idempotent ==
    pc = "twice" => Range(result2) = Range(result)

\* an input with a symbolic link, a repeated path and an unreadable file of
\* the size of a readable one, from which a path was removed
C8_Witness ==
    /\ pc = "twice"
    /\ \E i \in 1..Len(filelist) : fs[filelist[i]].kind = "link"
    /\ \E i \in 1..Len(filelist), j \in 1..Len(filelist) :
           i # j /\ filelist[i] = filelist[j]
    /\ IsFile("f1") /\ Readable("f1")
    /\ \E i \in 1..Len(filelist) :
           /\ IsFile(filelist[i])
           /\ ~Readable(filelist[i])
           /\ getsize(filelist[i]) = getsize("f1")
    /\ result2 = <<"f1">>

----------------------------------------------------------------------------
(* The main program: process_worker for every row of the CSV, then the     *)
(* metric loop over the artifacts. A path is [root, file, ext].            *)

NoFile == [kind |-> "nofile"]
\* an artifact opened for writing whose text was not written out
Partial == [kind |-> "partial"]
Written(text) == [kind |-> "json", json |-> text.json]

Path(root, file, ext) == [root |-> root, file |-> file, ext |-> ext]

\* the files that the project directories can hold
Tree ==
    {Path("p1", "A", ".java"), Path("p1", "B", ".java"),
     Path("p1", "notes", ".txt"), Path("p2", "A", ".java")}

\* every ordering of a finite set
Orderings(S) ==
    {w \in [1..Cardinality(S) -> S] : \A x \in S : \E i \in DOMAIN w : w[i] = x}

\* os.walk(path): the files under path, in the order of os.scandir, which
\* the file system decides: any order can come out of a walk
WalkOrders(path) ==
    Orderings({f \in Tree : f.root = path /\ fs[f].kind # "absent"})

WorkerTexts == {TextDoc, TextHelloWorld, <<"/", "/">>}

Languages == {"Java", "Python"}

\* the metric columns before the metric loop: -1 where the CSV has none
Unset ==
    [src_files |-> -1, src_file_size |-> -1, comment_size |-> -1,
     doc_comment |-> -1, impl_comment |-> -1]

suffix_mapping(language) ==
    CASE language = "Java"       -> ".java"
      [] language = "JavaScript" -> ".js"
      [] language = "Python"     -> ".py"

\* the lists get_file_list can return: the files under path whose name
\* ends with suffix, in the order of one walk
get_file_list(path, suffix) ==
    LET Match(f) == f.ext = suffix
    IN  {SelectSeq(w, Match) : w \in WalkOrders(path)}

\* a check of the wrong file name: it is never there
ArtifactExists_never(name) == FALSE

\* os.path.exists('temp/comment_data/{}.json')
ArtifactExists(name) == artifacts[name].kind # "nofile"

\* how many files of the first n groups of a dict are hashed
RECURSIVE GroupReads(_, _)
GroupReads(d, n) ==
    IF n = 0 THEN 0
    ELSE GroupReads(d, n - 1)
             + (IF Len(d[n].files) < 2 THEN 0 ELSE Len(d[n].files))

\* how many times process_worker opens a source file: the two hash loops
\* of remove_duplicates and the loop of extract_comment_java
FileReads(file_list) ==
    LET by_size == hashes_by_size(file_list)
        on_1k == Tier2(by_size, Len(by_size)).hashes_on_1k
    IN  GroupReads(by_size, Len(by_size)) + GroupReads(on_1k, Len(on_1k))
            + Len(remove_duplicates(file_list))

InitWorker ==
    /\ \E a \in WorkerTexts, b \in WorkerTexts \cup {<<"none">>},
          c \in WorkerTexts, m \in Modes :
           fs = [f \in Tree |->
                    CASE f = Path("p1", "A", ".java") -> File(a, "r")
                      [] f = Path("p1", "B", ".java") ->
                             IF b = <<"none">> THEN Absent ELSE File(b, "r")
                      [] f = Path("p2", "A", ".java") -> File(c, m)
                      [] OTHER -> File(TextDoc, "r")]
    /\ \E l1 \in Languages, l2 \in Languages :
           projects = <<[name |-> "p1", language |-> l1],
                        [name |-> "p2", language |-> l2]>>
    /\ artifacts = [n \in {"p1", "p2"} |-> NoFile]
    /\ csv = [i \in 1..2 |-> Unset]
    /\ metrics = [i \in 1..2 |-> Unset]
    /\ index = 1
    /\ pc = "worker"
    /\ filelist = << >>
    /\ result = << >>
    /\ result2 = << >>
    /\ comment_data = << >>
    /\ error = "none"
    /\ io = NoIO
    /\ restarts = 0

row == projects[index]

\* the next row of the loop, or the first row of what comes after it
NextRow(loop, after) ==
    IF index < Len(projects)
    THEN /\ pc' = loop
         /\ index' = index + 1
    ELSE /\ pc' = after
         /\ index' = 1

\* process_worker, lines 173-176: the artifact exists, the row is skipped
WorkerSkip ==
    /\ pc = "worker"
    /\ ArtifactExists(row.name)
    /\ NextRow("worker", "metrics")
    /\ UNCHANGED <<fs, filelist, result, result2, comment_data, error,
                   metrics, projects, artifacts, io, restarts, csv>>

\* process_worker, lines 179-182: the language is not Java
WorkerNotJava ==
    /\ pc = "worker"
    /\ ~ArtifactExists(row.name)
    /\ row.language # "Java"
    /\ NextRow("worker", "metrics")
    /\ UNCHANGED <<fs, filelist, result, result2, comment_data, error,
                   metrics, projects, artifacts, io, restarts, csv>>

\* process_worker, lines 186-197: walk, remove duplicates, extract
WorkerProcess ==
    /\ pc = "worker"
    /\ ~ArtifactExists(row.name)
    /\ row.language = "Java"
    /\ \E file_list \in get_file_list(row.name, suffix_mapping(row.language)) :
       LET unique == remove_duplicates(file_list)
       IN  /\ filelist' = file_list
           /\ result' = unique
           /\ io' = [io EXCEPT !.walks = @ + 1,
                               !.reads = @ + FileReads(file_list)]
           /\ IF ExtractRaises(unique)
              THEN /\ error' = "OSError"
                   /\ comment_data' = << >>
                   /\ pc' = "crashed"
              ELSE /\ error' = error
                   /\ comment_data' = extract_comment_java(unique)
                   /\ pc' = "open"
    /\ UNCHANGED <<fs, result2, metrics, projects, artifacts, index,
                   restarts, csv>>

\* process_worker, line 198: the artifact is created, empty
WorkerOpen ==
    /\ pc = "open"
    /\ artifacts' = [artifacts EXCEPT ![row.name] = Partial]
    /\ pc' = "write"
    /\ UNCHANGED <<fs, filelist, result, result2, comment_data, error,
                   metrics, projects, index, io, restarts, csv>>

\* process_worker, line 199 and the end of the with block
WorkerWrite ==
    /\ pc = "write"
    /\ artifacts' = [artifacts EXCEPT ![row.name] =
                        Written(json_dumps(comment_data))]
    /\ io' = [io EXCEPT !.writes = @ + 1]
    /\ NextRow("worker", "metrics")
    /\ UNCHANGED <<fs, filelist, result, result2, comment_data, error,
                   metrics, projects, restarts, csv>>

\* the metric loop, lines 251-268, for a row whose artifact can be loaded;
\* after the last row the CSV is written
MetricsRow ==
    /\ pc = "metrics"
    /\ artifacts[row.name].kind = "json"
    /\ metrics' = [metrics EXCEPT ![index] =
                      Aggregate(json_load(artifacts[row.name]))]
    /\ NextRow("metrics", "finished")
    /\ csv' = IF index < Len(projects) THEN csv ELSE metrics'
    /\ UNCHANGED <<fs, filelist, result, result2, comment_data, error,
                   projects, artifacts, io, restarts>>

\* the metric loop, line 251: open() of an artifact that does not exist
MetricsMissing ==
    /\ pc = "metrics"
    /\ artifacts[row.name].kind = "nofile"
    /\ error' = "FileNotFoundError"
    /\ pc' = "crashed"
    /\ UNCHANGED <<fs, filelist, result, result2, comment_data, metrics,
                   projects, artifacts, index, io, restarts, csv>>

\* the metric loop, line 252: json.load of an artifact that is not complete
MetricsMalformed ==
    /\ pc = "metrics"
    /\ artifacts[row.name].kind = "partial"
    /\ error' = "JSONDecodeError"
    /\ pc' = "crashed"
    /\ UNCHANGED <<fs, filelist, result, result2, comment_data, metrics,
                   projects, artifacts, index, io, restarts, csv>>

\* the program is killed, or has ended, and is started again: the CSV and
\* the artifacts are what the earlier runs left
Restart ==
    /\ restarts < MaxRestarts
    /\ restarts' = restarts + 1
    /\ pc' = "worker"
    /\ index' = 1
    /\ metrics' = csv
    /\ comment_data' = << >>
    /\ filelist' = << >>
    /\ result' = << >>
    /\ error' = "none"
    /\ io' = NoIO
    /\ UNCHANGED <<fs, result2, projects, artifacts, csv>>

NextWorker ==
    \/ WorkerSkip
    \/ WorkerNotJava
    \/ WorkerProcess
    \/ WorkerOpen
    \/ WorkerWrite
    \/ MetricsRow
    \/ MetricsMissing
    \/ MetricsMalformed
    \/ Restart

SpecWorker == InitWorker /\ [][NextWorker]_vars

----------------------------------------------------------------------------
(* Properties of the worker and of the metric loop.                        *)

\* C4: a step of process_worker for a row whose artifact exists walks no
\* directory, reads, hashes and scans no file and leaves every artifact as
\* it is; and an artifact that was written is never changed, so a second
\* run leaves the artifacts of the first.
C4_Resume ==
    [][/\ (pc = "worker" /\ artifacts[row.name].kind # "nofile"
              /\ restarts' = restarts)
          => /\ io' = io
             /\ artifacts' = artifacts
             /\ fs' = fs
             /\ comment_data' = comment_data
             /\ pc' \in {"worker", "metrics"}
       /\ \A n \in DOMAIN artifacts :
              artifacts[n].kind = "json" => artifacts'[n] = artifacts[n]
      ]_vars

\* a second run that reached the metric loop having skipped both rows: no
\* walk, no read, no write, and the artifacts of the first run
C4_Witness ==
    /\ pc = "metrics"
    /\ restarts = 1
    /\ io = NoIO
    /\ \A n \in DOMAIN artifacts :
           /\ artifacts[n].kind = "json"
           /\ \E f \in DOMAIN artifacts[n].json :
                  artifacts[n].json[f].comments # << >>

\* C10 as stated: when the metric loop reads the artifact of a row, the
\* artifact exists and holds the whole dictionary of that project.
C10_ArtifactReady ==
    pc = "metrics" =>
        /\ artifacts[row.name].kind = "json"
        /\ \E file_list \in get_file_list(row.name, ".java") :
               json_load(artifacts[row.name]) =
                   extract_comment_java(remove_duplicates(file_list))

====
